---- MODULE Spec2Model ----
(***************************************************************************)
(* Model of cell_line_screening.py: the CellLineClone biological model     *)
(* (grow, produce_antibody, score) and the AutomatedScreening campaign     *)
(* driver (day_0_seed_plates, day_3_feed_and_sample,                       *)
(* day_7_harvest_and_analyze, select_top_clones,                           *)
(* run_full_screening_campaign).                                           *)
(*                                                                         *)
(* Fixed-point units (the source uses floats):                             *)
(*   base_titer            0.1 g/L         (25  = 2.5 g/L)                 *)
(*   growth_rate           0.001 per hour  (32  = 0.032 /h)                *)
(*   viability             0.1 percent     (940 = 94 %)                    *)
(*   aggregation_level     0.1 percent     (50  = 5.0 %)                   *)
(*   densities             cells/mL                                        *)
(*   titer                 1e-6 g/L                                        *)
(*   noise (random.gauss)  percent         (110 = 1.10)                    *)
(*   score                 0.001           (the 3 decimals of round(.,3))  *)
(* Console output and the wall-clock start_date are not modelled.          *)
(***************************************************************************)
EXTENDS Integers, Sequences, FiniteSets, TLC

\* ---- bounds -------------------------------------------------------------
MaxClones == 2
MaxLog == 4

\* ---- optional values (Python None) ---------------------------------------
None == << >>
Some(x) == << x >>
Truthy(o) == o # None /\ o[1] # 0

Min(a, b) == IF a <= b THEN a ELSE b
Max(a, b) == IF a >= b THEN a ELSE b

\* Python round(): nearest multiple of d, exact ties to the even quotient.
RoundDiv(a, d) ==
  LET q == a \div d
      r == a % d
  IN  IF 2 * r < d THEN q
      ELSE IF 2 * r > d THEN q + 1
      ELSE IF q % 2 = 0 THEN q ELSE q + 1

\* ---- CellLineClone -------------------------------------------------------
\* Values drawn by random.gauss / random.choice / random.uniform in __init__,
\* before clamping.
RawDraws ==
  { [base_titer |-> 25, growth_rate |-> 30, viability |-> 940,
     stability |-> TRUE, glycosylation_pattern |-> "Optimal",
     aggregation_level |-> 50],
    [base_titer |-> 75, growth_rate |-> 55, viability |-> 1020,
     stability |-> FALSE, glycosylation_pattern |-> "Poor",
     aggregation_level |-> 20],
    [base_titer |-> -5, growth_rate |-> 10, viability |-> 550,
     stability |-> FALSE, glycosylation_pattern |-> "Good",
     aggregation_level |-> 80] }

\* Multiplicative noise random.gauss(1.0, 0.1) of produce_antibody.
Noise == {90, 110}

\* f"Clone_{i:03d}"
CloneId(i) ==
  "Clone_" \o (IF i < 10 THEN "00" ELSE IF i < 100 THEN "0" ELSE "")
           \o ToString(i)

NewClone(clone_id, raw) ==
  [ id |-> clone_id,
    parent |-> "CHO-K1",
    base_titer |-> Max(1, Min(60, raw.base_titer)),
    growth_rate |-> Max(15, Min(50, raw.growth_rate)),
    viability |-> Max(600, Min(990, raw.viability)),
    stability |-> raw.stability,
    glycosylation_pattern |-> raw.glycosylation_pattern,
    aggregation_level |-> raw.aggregation_level,
    day0_density |-> 500000,
    day3_density |-> None,
    day7_density |-> None,
    day7_viability |-> None,
    day7_titer |-> None ]

\* 1000 * exp(x / 1000), tabulated for the products growth_rate * time_hours
\* that the clamped growth rates and the sampling days 3 and 7 produce.
ExpMilli(x) ==
  CASE x = 1080 -> 2945
    [] x = 2520 -> 12429
    [] x = 2160 -> 8671
    [] x = 5040 -> 154470
    [] x = 3240 -> 25534
    [] x = 7560 -> 1919846
    [] x = 3600 -> 36598
    [] x = 8400 -> 4447067

\* grow(days) -> <<density, viability>>
grow(c, days) ==
  LET time_hours == days * 24
      peak_density == 8000000
      e == ExpMilli(c.growth_rate * time_hours)
      \* day0_density * exp(.) = 500 * e; capped before multiplying so that
      \* the product stays inside machine integers
      density == IF e >= 16000 THEN peak_density
                 ELSE Min((c.day0_density \div 1000) * e, peak_density)
      viability == Max(600, c.viability - days * 5)
  IN  << density, viability >>

\* produce_antibody(days), with the noise draw as a parameter
produce_antibody(c, days, nz) ==
  LET viability == grow(c, days)[2]
      titer == (c.base_titer * days * viability * nz) \div 7
  IN  Max(100000, titer)

titer_score(c) ==
  IF Truthy(c.day7_titer) THEN 18 * Min(5000000, c.day7_titer[1]) ELSE 0
viability_score(c) ==
  IF Truthy(c.day7_viability) THEN 56250 * c.day7_viability[1] ELSE 0
growth_score(c) == 500000 * Min(45, c.growth_rate)
stability_bonus(c) == IF c.stability THEN 45000000 ELSE 0
quality_bonus(c) ==
  IF c.glycosylation_pattern = "Optimal" THEN 33750000 ELSE 0

\* Variant of quality_penalty with a non-strict comparison (sensitivity of C9).
quality_penalty_ge(c) == IF c.aggregation_level >= 50 THEN -22500000 ELSE 0
quality_penalty(c) == IF c.aggregation_level > 50 THEN -22500000 ELSE 0

\* score(): the weighted terms are summed in units of 1e-6/225 and rounded
\* to 3 decimals.
score(c) ==
  RoundDiv(titer_score(c) + viability_score(c) + growth_score(c)
           + stability_bonus(c) + quality_bonus(c) + quality_penalty(c),
           225000)

\* ---- AutomatedScreening ----------------------------------------------------
VARIABLES made, num_clones, clones, screening_log, results_df, ret
vars == << made, num_clones, clones, screening_log, results_df, ret >>

\* Outcome of the last call: the operation, the exception it raised ("none"
\* when it returned), its count or index argument, its return value (val, df,
\* top) and the table it handed to to_csv.
Ret(op, exc, n, val, df, top) ==
  [op |-> op, exc |-> exc, n |-> n, val |-> val, df |-> df, top |-> top,
   csv |-> None]

Init ==
  /\ made = FALSE
  /\ num_clones = 0
  /\ clones = << >>
  /\ screening_log = << >>
  /\ results_df = None
  /\ ret = Ret("none", "none", 0, << >>, None, None)

\* AutomatedScreening.__init__(num_clones): one CellLineClone per index of
\* range(num_clones), which is empty for num_clones <= 0.
AutomatedScreening_init ==
  \E n \in -1..MaxClones : \E raw \in [1..n -> RawDraws] :
    /\ ~made
    /\ made' = TRUE
    /\ num_clones' = n
    /\ clones' = [i \in 1..n |-> NewClone(CloneId(i), raw[i])]
    /\ screening_log' = << >>
    /\ ret' = Ret("__init__", "none", n, << >>, None, None)
    /\ UNCHANGED results_df

\* One screening_log record per clone appended by day_0_seed_plates.
SeedEntries(cs) ==
  [i \in 1..Len(cs) |->
     [day |-> 0, clone_id |-> cs[i].id, action |-> "seeded",
      volume_ul |-> 200, density_cells_ml |-> cs[i].day0_density]]

\* Variant of FeedClone that also stores the day-3 viability on the clone
\* (sensitivity of C8).
FeedClone_persist_viability(c) ==
  [c EXCEPT !.day3_density = Some(grow(c, 3)[1]), !.viability = grow(c, 3)[2]]

\* Body of the day-3 loop for one clone: the mutation of the clone ...
FeedClone(c) == [c EXCEPT !.day3_density = Some(grow(c, 3)[1])]

\* ... and the record it appends to screening_log.
FeedEntry(c) ==
  [day |-> 3, clone_id |-> c.id, action |-> "fed_and_sampled",
   feed_volume_ul |-> 50, sample_volume_ul |-> 50,
   density |-> grow(c, 3)[1], viability |-> grow(c, 3)[2]]

FeedEntries(cs) == [i \in 1..Len(cs) |-> FeedEntry(cs[i])]

\* One row of the result table: Titer in 0.01 g/L, Viability in 0.1 %,
\* VCD in 0.01e6 cells/mL, Score in 0.001.
ResultRow(c, density, viability, titer) ==
  [CloneID |-> c.id,
   Titer |-> RoundDiv(titer, 10000),
   Viability |-> viability,
   VCD |-> RoundDiv(density, 10000),
   GrowthRate |-> c.growth_rate,
   Stable |-> IF c.stability THEN "Yes" ELSE "No",
   Glycosylation |-> c.glycosylation_pattern,
   Aggregates |-> c.aggregation_level,
   Score |-> score(c)]

\* Variant of HarvestOne that builds the row before the observations are
\* persisted (sensitivity of C7).
HarvestOne_score_first(c, nz) ==
  LET g == grow(c, 7)
      titer == produce_antibody(c, 7, nz)
      c2 == [c EXCEPT !.day7_density = Some(g[1]),
                      !.day7_viability = Some(g[2]),
                      !.day7_titer = Some(titer)]
  IN  [clone |-> c2, row |-> ResultRow(c, g[1], g[2], titer)]

\* Body of the day-7 loop for one clone: persist the three observations,
\* then build the row from the updated clone.
HarvestOne(c, nz) ==
  LET g == grow(c, 7)
      titer == produce_antibody(c, 7, nz)
      c2 == [c EXCEPT !.day7_density = Some(g[1]),
                      !.day7_viability = Some(g[2]),
                      !.day7_titer = Some(titer)]
  IN  [clone |-> c2, row |-> ResultRow(c2, g[1], g[2], titer)]

\* Variant of FirstMax preferring the last of equal scores (sensitivity of
\* C4).
LastMax(rows, S) ==
  CHOOSE i \in S :
    \A j \in S : \/ rows[j].Score < rows[i].Score
                 \/ (rows[j].Score = rows[i].Score /\ i >= j)

\* Index of the first row of rows, among the indices in S, with the largest
\* Score.
FirstMax(rows, S) ==
  CHOOSE i \in S :
    \A j \in S : \/ rows[j].Score < rows[i].Score
                 \/ (rows[j].Score = rows[i].Score /\ i <= j)

RECURSIVE TakeLargest(_, _, _)
TakeLargest(rows, S, k) ==
  IF k <= 0 \/ S = {} THEN << >>
  ELSE LET i == FirstMax(rows, S)
       IN  << rows[i] >> \o TakeLargest(rows, S \ {i}, k - 1)

\* Variant of nlargest returning nothing for n > len(df) (sensitivity of
\* C10).
nlargest_in_range(rows, n) ==
  IF n > Len(rows) THEN << >> ELSE TakeLargest(rows, 1..Len(rows), n)

\* DataFrame.nlargest(n, 'Score') with the default keep='first': the first n
\* rows in descending Score order, equal scores in their original order; an
\* empty frame for n <= 0 and the whole frame, sorted, for n >= len(df).
nlargest(rows, n) == TakeLargest(rows, 1..Len(rows), n)

\* The count run_full_screening_campaign passes to select_top_clones.
CampaignTopN == 10

\* Counts a caller passes to select_top_clones.
SelectCounts == (-1..(MaxClones + 1)) \cup {CampaignTopN}
Days == {3, 7}

day_0_seed_plates ==
  /\ made
  /\ Len(screening_log) + Len(clones) <= MaxLog
  /\ screening_log' = screening_log \o SeedEntries(clones)
  \* self.clones[0] in the closing report raises on an empty population
  /\ ret' = Ret("day_0_seed_plates",
                IF Len(clones) = 0 THEN "IndexError" ELSE "none",
                0, << >>, None, None)
  /\ UNCHANGED << made, num_clones, clones, results_df >>

day_3_feed_and_sample ==
  /\ made
  /\ Len(screening_log) + Len(clones) <= MaxLog
  /\ clones' = [i \in 1..Len(clones) |-> FeedClone(clones[i])]
  /\ screening_log' = screening_log \o FeedEntries(clones)
  /\ ret' = Ret("day_3_feed_and_sample", "none", 0, << >>, None, None)
  /\ UNCHANGED << made, num_clones, results_df >>

day_7_harvest_and_analyze ==
  \E nz \in [1..Len(clones) -> Noise] :
    /\ made
    /\ LET h == [i \in 1..Len(clones) |-> HarvestOne(clones[i], nz[i])]
           df == [i \in 1..Len(clones) |-> h[i].row]
       IN  /\ clones' = [i \in 1..Len(clones) |-> h[i].clone]
           \* the statistics index a column of an empty frame: KeyError
           /\ IF Len(clones) = 0
              THEN /\ ret' = Ret("day_7_harvest_and_analyze", "KeyError",
                                 0, << >>, None, None)
                   /\ UNCHANGED results_df
              ELSE /\ ret' = Ret("day_7_harvest_and_analyze", "none",
                                 0, << >>, Some(df), None)
                   /\ results_df' = Some(df)
    /\ UNCHANGED << made, num_clones, screening_log >>

\* select_top_clones(df, n) on the table the day-7 step returned
select_top_clones ==
  \E n \in SelectCounts :
    /\ made
    /\ results_df # None
    /\ ret' = Ret("select_top_clones", "none", n, << >>, results_df,
                  Some(nlargest(results_df[1], n)))
    /\ UNCHANGED << made, num_clones, clones, screening_log, results_df >>

run_full_screening_campaign ==
  \E nz \in [1..Len(clones) -> Noise] :
    /\ made
    /\ Len(screening_log) + 2 * Len(clones) <= MaxLog
    /\ IF Len(clones) = 0
       THEN \* day_0_seed_plates raises before anything is appended
            /\ ret' = Ret("run_full_screening_campaign", "IndexError",
                          0, << >>, None, None)
            /\ UNCHANGED << clones, screening_log, results_df >>
       ELSE LET fed == [i \in 1..Len(clones) |-> FeedClone(clones[i])]
                h == [i \in 1..Len(fed) |-> HarvestOne(fed[i], nz[i])]
                df == [i \in 1..Len(fed) |-> h[i].row]
                top_clones == nlargest(df, CampaignTopN)
            IN  /\ screening_log' = (screening_log \o SeedEntries(clones))
                                      \o FeedEntries(clones)
                /\ clones' = [i \in 1..Len(fed) |-> h[i].clone]
                /\ results_df' = Some(df)
                /\ ret' = [Ret("run_full_screening_campaign", "none",
                               CampaignTopN, << >>, Some(df),
                               Some(top_clones))
                           EXCEPT !.csv = Some(df)]
    /\ UNCHANGED << made, num_clones >>

\* Direct calls of the model functions on clone i.
call_grow ==
  \E i \in 1..Len(clones) : \E days \in Days :
    /\ made
    /\ ret' = Ret("grow", "none", i, grow(clones[i], days), None, None)
    /\ UNCHANGED << made, num_clones, clones, screening_log, results_df >>

call_produce_antibody ==
  \E i \in 1..Len(clones) : \E days \in Days : \E nz \in Noise :
    /\ made
    /\ ret' = Ret("produce_antibody", "none", i,
                  << produce_antibody(clones[i], days, nz) >>, None, None)
    /\ UNCHANGED << made, num_clones, clones, screening_log, results_df >>

call_score ==
  \E i \in 1..Len(clones) :
    /\ made
    /\ ret' = Ret("score", "none", i, << score(clones[i]) >>, None, None)
    /\ UNCHANGED << made, num_clones, clones, screening_log, results_df >>

Next ==
  \/ AutomatedScreening_init
  \/ day_0_seed_plates
  \/ day_3_feed_and_sample
  \/ day_7_harvest_and_analyze
  \/ select_top_clones
  \/ run_full_screening_campaign
  \/ call_grow
  \/ call_produce_antibody
  \/ call_score

Spec == Init /\ [][Next]_vars

\* ---- properties ------------------------------------------------------------
Populated(o) == o # None
IsPrefix(s, t) == Len(s) <= Len(t) /\ SubSeq(t, 1, Len(s)) = s
ClonesIdx == 1..Len(clones)

Seeded == \E k \in 1..Len(screening_log) : screening_log[k].day = 0
Fed == \A i \in ClonesIdx : Populated(clones[i].day3_density)
Harvested == \A i \in ClonesIdx : Populated(clones[i].day7_titer)

\* C1: a later-stage step called before the earlier stage has completed
\* fails with SequenceViolation and does not perform its transition: the
\* day-3 step needs the campaign seeded, the day-7 step needs it fed.
C1_StageOrderEnforced ==
  (made /\ num_clones >= 1) =>
    /\ (ret.op = "day_3_feed_and_sample" /\ ~Seeded)
         => ret.exc = "SequenceViolation"
    /\ (ret.op = "day_7_harvest_and_analyze" /\ ~Fed)
         => ret.exc = "SequenceViolation"
    /\ Fed => Seeded
    /\ Harvested => Fed

\* C2: day3_density is None until the day-3 step has run and the day-7
\* fields are None until the day-7 step has run; a populated observation is
\* never changed by a later operation.
C2_WriteOnceObservations ==
  [][ /\ \A i \in 1..Len(clones') :
            /\ Populated(clones'[i].day3_density) =>
                 \E k \in 1..Len(screening_log') :
                    /\ screening_log'[k].day = 3
                    /\ screening_log'[k].clone_id = clones'[i].id
            /\ (Populated(clones'[i].day7_density)
                  \/ Populated(clones'[i].day7_viability)
                  \/ Populated(clones'[i].day7_titer)) =>
                 \/ i \in ClonesIdx /\ Populated(clones[i].day7_titer)
                 \/ ret'.op \in {"day_7_harvest_and_analyze",
                                 "run_full_screening_campaign"}
      /\ \A i \in ClonesIdx :
            /\ Populated(clones[i].day3_density) =>
                 clones'[i].day3_density = clones[i].day3_density
            /\ Populated(clones[i].day7_density) =>
                 clones'[i].day7_density = clones[i].day7_density
            /\ Populated(clones[i].day7_viability) =>
                 clones'[i].day7_viability = clones[i].day7_viability
            /\ Populated(clones[i].day7_titer) =>
                 clones'[i].day7_titer = clones[i].day7_titer ]_vars

\* C3: select_top_clones with n <= 0 or n > the number of rows fails with
\* InvalidConfiguration, returns no selection and leaves clones, event log
\* and result table as they were.
C3_SelectValidatesCount ==
  [][ (/\ ret'.op = "select_top_clones"
       /\ (ret'.n <= 0 \/ ret'.n > Len(ret'.df[1])))
      => /\ ret'.exc = "InvalidConfiguration"
         /\ ret'.top = None
         /\ UNCHANGED << made, num_clones, clones, screening_log,
                         results_df >> ]_vars

\* C4: for a table of m rows and 0 < n <= m, select_top_clones returns
\* exactly n rows of the table with distinct clone ids in non-increasing
\* Score order; no unselected row scores higher than a selected one; rows
\* of equal Score are taken, and appear, in their original order.
C4_TopNSelection ==
  (/\ ret.op = "select_top_clones"
   /\ 0 < ret.n /\ ret.n <= Len(ret.df[1])) =>
    LET rows == ret.df[1]
        top == ret.top[1]
        InTop(j) == \E k \in 1..Len(top) : top[k] = rows[j]
        Pos(j) == CHOOSE k \in 1..Len(top) : top[k] = rows[j]
    IN  /\ ret.exc = "none"
        /\ Len(top) = ret.n
        /\ \A k \in 1..Len(top) : \E j \in 1..Len(rows) : top[k] = rows[j]
        /\ \A k, l \in 1..Len(top) :
              k # l => top[k].CloneID # top[l].CloneID
        /\ \A k \in 1..(Len(top) - 1) : top[k].Score >= top[k + 1].Score
        /\ \A j \in 1..Len(rows) : \A k \in 1..Len(top) :
              ~InTop(j) => rows[j].Score <= top[k].Score
        /\ \A i, j \in 1..Len(rows) :
              (i < j /\ rows[i].Score = rows[j].Score /\ InTop(j))
                => (InTop(i) /\ Pos(i) < Pos(j))

C4_Witness ==
  /\ ret.op = "select_top_clones"
  /\ Len(ret.df[1]) >= 2
  /\ ret.n = 1
  /\ ret.df[1][1].Score = ret.df[1][2].Score
  /\ ret.top[1] = << ret.df[1][1] >>

\* C5: constructing with num_clones <= 0 fails with InvalidConfiguration and
\* yields no campaign; with num_clones > 0 it yields exactly num_clones
\* clones with the pairwise distinct ids Clone_001 .. Clone_NNN in creation
\* order.
C5_ConstructionValidated ==
  /\ (ret.op = "__init__" /\ ret.n <= 0)
       => (ret.exc = "InvalidConfiguration" /\ ~made)
  /\ made =>
       /\ num_clones > 0
       /\ Len(clones) = num_clones
       /\ \A i \in ClonesIdx : clones[i].id = CloneId(i)
       /\ \A i, j \in ClonesIdx : i # j => clones[i].id # clones[j].id

DayIds(log, d) ==
  LET sel == SelectSeq(log, LAMBDA e : e.day = d)
  IN  [k \in 1..Len(sel) |-> sel[k].clone_id]

\* C6: the event log is append-only, its entries are in non-decreasing day
\* order, and the entries of one day are one per clone in creation order.
C6_LogAppendOnlyOrdered ==
  [][ /\ IsPrefix(screening_log, screening_log')
      /\ \A k, l \in 1..Len(screening_log') :
            k < l => screening_log'[k].day <= screening_log'[l].day
      /\ \A d \in {0, 3} :
            \/ DayIds(screening_log', d) = << >>
            \/ DayIds(screening_log', d)
                 = [i \in 1..Len(clones') |-> clones'[i].id] ]_vars

\* C7: after the day-7 step completes every clone has its three day-7
\* observations, and the returned table has num_clones rows, row i carrying
\* the id of the i-th clone and the score() of that clone as persisted.
C7_HarvestTable ==
  (ret.op = "day_7_harvest_and_analyze" /\ ret.exc = "none") =>
    /\ \A i \in ClonesIdx :
          /\ Populated(clones[i].day7_density)
          /\ Populated(clones[i].day7_viability)
          /\ Populated(clones[i].day7_titer)
    /\ Populated(ret.df)
    /\ Len(ret.df[1]) = num_clones
    /\ \A i \in 1..num_clones :
          /\ ret.df[1][i].CloneID = clones[i].id
          /\ clones[i].id = CloneId(i)
          /\ ret.df[1][i].Score = score(clones[i])

C7_Witness ==
  /\ ret.op = "day_7_harvest_and_analyze"
  /\ ret.exc = "none"
  /\ num_clones >= 2
  /\ Len(ret.df[1]) = num_clones
  /\ ret.df[1][2].Score # ret.df[1][1].Score

Intrinsic(c) ==
  << c.id, c.base_titer, c.growth_rate, c.viability, c.stability,
     c.glycosylation_pattern, c.aggregation_level, c.day0_density >>

\* C8: no campaign step and no model call changes a clone's intrinsic
\* parameters or day0_density; the day-0 step changes no clone field, the
\* day-3 step changes only day3_density, and grow, produce_antibody and
\* score change no clone field.
C8_IntrinsicFrozen ==
  [][ made =>
        /\ Len(clones') = Len(clones)
        /\ \A i \in ClonesIdx : Intrinsic(clones'[i]) = Intrinsic(clones[i])
        /\ ret'.op = "day_0_seed_plates" => clones' = clones
        /\ ret'.op = "day_3_feed_and_sample" =>
             \A i \in ClonesIdx :
                clones'[i] = [clones[i] EXCEPT
                                !.day3_density = clones'[i].day3_density]
        /\ ret'.op \in {"grow", "produce_antibody", "score",
                        "select_top_clones"} => clones' = clones ]_vars

C8_Witness ==
  /\ ret.op = "day_3_feed_and_sample"
  /\ num_clones >= 1
  /\ Populated(clones[1].day3_density)
  /\ clones[1].viability - 15 >= 600
  /\ ~Populated(clones[1].day7_titer)

\* C9: score() on a clone without day-7 titer and viability does not fail
\* and returns the 3-decimal rounding of
\* 0.10*min(1, growth_rate/0.045) + 0.20 (stable) + 0.15 (Optimal)
\* - 0.10 (aggregation_level strictly above 5.0).
C9_ScoreWithoutDay7 ==
  (/\ ret.op = "score"
   /\ clones[ret.n].day7_titer = None
   /\ clones[ret.n].day7_viability = None) =>
    LET c == clones[ret.n]
        bonus == (IF c.stability THEN 200 ELSE 0)
                 + (IF c.glycosylation_pattern = "Optimal" THEN 150 ELSE 0)
                 - (IF c.aggregation_level > 50 THEN 100 ELSE 0)
        g == IF c.growth_rate > 45 THEN 45 ELSE c.growth_rate
    IN  /\ ret.exc = "none"
        /\ ret.val = << RoundDiv(100 * g + 45 * bonus, 45) >>

C9_Witness ==
  /\ ret.op = "score"
  /\ clones[ret.n].day7_titer = None
  /\ clones[ret.n].day7_viability = None
  /\ clones[ret.n].aggregation_level = 50
  /\ ret.val = << 417 >>

\* C10: run_full_screening_campaign on num_clones >= 1 runs seed, feed,
\* harvest, select with n = 10 and export once each in that order without
\* raising, and returns min(10, num_clones) selected rows.
C10_FullCampaign ==
  [][ (ret'.op = "run_full_screening_campaign" /\ num_clones >= 1) =>
        /\ ret'.exc = "none"
        /\ Len(screening_log') = Len(screening_log) + 2 * num_clones
        /\ IsPrefix(screening_log, screening_log')
        /\ \A i \in 1..num_clones :
              LET s == screening_log'[Len(screening_log) + i]
                  f == screening_log'[Len(screening_log) + num_clones + i]
              IN  /\ s.day = 0 /\ s.action = "seeded"
                  /\ s.clone_id = clones[i].id
                  /\ f.day = 3 /\ f.action = "fed_and_sampled"
                  /\ f.clone_id = clones[i].id
                  /\ clones'[i].day3_density = Some(f.density)
                  /\ Populated(clones'[i].day7_titer)
                  /\ ret'.df[1][i].CloneID = clones[i].id
                  /\ ret'.df[1][i].Score = score(clones'[i])
        /\ Len(ret'.df[1]) = num_clones
        /\ ret'.n = 10
        /\ Len(ret'.top[1])
             = (IF num_clones < 10 THEN num_clones ELSE 10)
        /\ \A k \in 1..Len(ret'.top[1]) :
              \E j \in 1..num_clones : ret'.top[1][k] = ret'.df[1][j]
        /\ \A k \in 1..(Len(ret'.top[1]) - 1) :
              ret'.top[1][k].Score >= ret'.top[1][k + 1].Score
        /\ ret'.csv = ret'.df ]_vars

C10_Witness ==
  /\ ret.op = "run_full_screening_campaign"
  /\ ret.exc = "none"
  /\ num_clones >= 2
  /\ num_clones < 10
  /\ Len(ret.top[1]) = num_clones
  /\ Len(screening_log) = 2 * num_clones
====
